---- MODULE Spec2Model ----
(***************************************************************************)
(* Model of traffic_analysis.py: the command run (main) that loads a       *)
(* directed network, enumerates the simple paths between two nodes and     *)
(* assigns n vehicles to them twice (equal split "Nash" placeholder and    *)
(* scipy-minimised social optimum), and the functions it is built from,    *)
(* which a client may also call directly.                                  *)
(*                                                                         *)
(* Numbers.  Flows are real valued in the code.  Here a flow is an integer *)
(* number of units of 1/den vehicles, den = Resolution * len(paths), so    *)
(* that n / len(paths) is exact.  A cost x * (a * x + b) of a flow of X    *)
(* units is kept multiplied by den^2: X * (a * X + b * den).               *)
(*                                                                         *)
(* Nodes.  GML labels are strings and main converts its integer arguments  *)
(* with str(); a node is modelled by the integer its label spells.         *)
(***************************************************************************)
EXTENDS Integers, Sequences, FiniteSets, TLC

\* ------------------------------------------------------------ bounds
MaxVehicles == 2
MaxCoef == 1
Resolution == 1

\* ------------------------------------------------------------ values
Value(t, x) == [tag |-> t, v |-> x]
Unset == Value("unset", <<>>)
NoneValue == Value("None", <<>>)
Raise(e) == Value(e, <<>>)

Range(s) == {s[i] : i \in 1..Len(s)}
Min(x, y) == IF x <= y THEN x ELSE y

RECURSIVE SumSeq(_)
SumSeq(s) == IF s = <<>> THEN 0 ELSE Head(s) + SumSeq(Tail(s))

RECURSIVE SumOver(_, _)
\* sum of f[e] for e in S
SumOver(f, S) ==
  IF S = {} THEN 0
  ELSE LET e == CHOOSE x \in S : TRUE IN f[e] + SumOver(f, S \ {e})

\* ------------------------------------------------------------ networks
\* dict.get(key, default) on an edge's attribute dictionary
DictGet(d, k, default) == IF k \in DOMAIN d THEN d[k] ELSE default

Graph(nodes, edges, attrs) == [nodes |-> nodes, edges |-> edges, attrs |-> attrs]
NoGraph == Graph({}, <<>>, <<>>)

\* G.edges(): the (u, v) pairs
GEdges(G) == Range(G.edges)

\* the attribute dictionaries an edge may carry: "a" and "b" each absent or set
AttrDicts ==
  UNION {[S -> 1..MaxCoef] : S \in SUBSET {"a", "b"}}

\* edge lists, in the order the file gives them
Topologies ==
  { << <<0, 1>> >>,
    << <<0, 2>>, <<2, 1>> >>,
    << <<0, 1>>, <<0, 2>>, <<2, 1>> >>,
    << <<0, 2>>, <<1, 2>> >>,
    << <<0, 2>>, <<2, 0>>, <<2, 1>> >> }

NodesOf(edges) == {e[1] : e \in Range(edges)} \cup {e[2] : e \in Range(edges)} \cup {0, 1}

\* The fixture of the specification's concrete scenario: route 0 -> 2 -> 1 with
\* a = 1 (b absent) on its first edge, route 0 -> 1 with b = 10 (a absent).
PigouGraph ==
  Graph({0, 1, 2}, << <<0, 2>>, <<2, 1>>, <<0, 1>> >>,
        ( <<0, 2>> :> [a |-> 1] ) @@ ( <<2, 1>> :> <<>> ) @@ ( <<0, 1>> :> [b |-> 10] ))
\* A Braess network: 0 -> 2 and 3 -> 1 cost x, 0 -> 3 and 2 -> 1 cost 3, the
\* shortcut 2 -> 3 is free.
BraessGraph ==
  Graph({0, 1, 2, 3}, << <<0, 2>>, <<0, 3>>, <<2, 3>>, <<2, 1>>, <<3, 1>> >>,
        ( <<0, 2>> :> [a |-> 1] ) @@ ( <<0, 3>> :> [b |-> 3] ) @@ ( <<2, 3>> :> <<>> )
          @@ ( <<2, 1>> :> [b |-> 3] ) @@ ( <<3, 1>> :> [a |-> 1] ))

\* the fixtures, each with its vehicle count
Scenarios ==
  { [graph |-> PigouGraph, vehicles |-> 20],
    [graph |-> BraessGraph, vehicles |-> 2] }

\* every topology with every choice of attributes
Networks ==
  UNION { { Graph(NodesOf(t), t, at) : at \in [Range(t) -> AttrDicts] } : t \in Topologies }

\* every topology with no attribute set (all edges free)
FreeNetworks ==
  { Graph(NodesOf(t), t, [e \in Range(t) |-> <<>>]) : t \in Topologies }

\* ------------------------------------------------------------ state
VARIABLES
  pc,               \* where main (or the direct caller) stands
  gml,              \* the file: [readable, directed, graph]
  args,             \* [vehicles, start, end, plot]
  G,                \* the loaded network
  paths,            \* get_all_paths' list
  nash_flows, opt_flows,
  nash_edge_flows, opt_edge_flows,
  out,              \* what was printed, and the plots shown
  exit_status,      \* -1 while running
  error,            \* the uncaught exception that ended the run, or "none"
  optimizer,        \* what the last minimize call reported: "success", "failure"
  ret               \* a direct call: [fn, flows, result]

vars == <<pc, gml, args, G, paths, nash_flows, opt_flows, nash_edge_flows,
          opt_edge_flows, out, exit_status, error, optimizer, ret>>

n == args.vehicles
NoCall == [fn |-> "none", flows |-> <<>>, result |-> Unset]

\* ------------------------------------------------------------ get_all_paths
Successors(Gr, u) ==
  LET RECURSIVE Pick(_)
      Pick(es) == IF es = <<>> THEN <<>>
                  ELSE IF Head(es)[1] = u THEN <<Head(es)[2]>> \o Pick(Tail(es))
                  ELSE Pick(Tail(es))
  IN Pick(Gr.edges)

RECURSIVE Explore(_, _, _, _)
\* depth-first enumeration: the simple paths that extend `path` by one of
\* `children` (in order) and end at `target`
Explore(Gr, path, target, children) ==
  IF children = <<>> THEN <<>>
  ELSE LET c == Head(children)
           rest == Explore(Gr, path, target, Tail(children))
       IN IF c \in Range(path) THEN rest
          ELSE IF c = target THEN <<Append(path, c)>> \o rest
          ELSE Explore(Gr, Append(path, c), target, Successors(Gr, c)) \o rest

\* list(nx.all_simple_paths(G, source, target)), for source # target and
\* source a node of G
get_all_paths(Gr, s, t) == Explore(Gr, <<s>>, t, Successors(Gr, s))

\* ------------------------------------------------------------ edge loads
Den(ps) == Resolution * Len(ps)

RECURSIVE AddPath_short(_, _, _, _)
\* AddPath with range(len(path) - 2): the last edge of the path is skipped
AddPath_short(ef, f, path, i) ==
  IF i > Len(path) - 2 THEN ef
  ELSE AddPath_short([ef EXCEPT ![<<path[i], path[i + 1]>>] = @ + f], f, path, i + 1)

RECURSIVE AddPath(_, _, _, _)
\* for i in range(len(path) - 1): edge_flows[(path[i], path[i+1])] += f
AddPath(ef, f, path, i) ==
  IF i > Len(path) - 1 THEN ef
  ELSE AddPath([ef EXCEPT ![<<path[i], path[i + 1]>>] = @ + f], f, path, i + 1)

RECURSIVE ZipLoop(_, _, _, _)
\* for f, path in zip(flows, paths): zip stops at the shorter of the two
ZipLoop(ef, flows, ps, j) ==
  IF j > Min(Len(flows), Len(ps)) THEN ef
  ELSE ZipLoop(AddPath(ef, flows[j], ps[j], 1), flows, ps, j + 1)

flows_to_edge_flows(Gr, ps, flows) ==
  IF flows.tag # "ndarray" THEN Raise("TypeError")
  ELSE Value("dict", ZipLoop([e \in GEdges(Gr) |-> 0], flows.v, ps, 1))

\* ------------------------------------------------------------ costs
\* x * (a * x + b) for a flow of X units, times den^2
EdgeCost(Gr, e, X, den) ==
  LET a == DictGet(Gr.attrs[e], "a", 0)
      b == DictGet(Gr.attrs[e], "b", 0)
  IN X * (a * X + b * den)

\* compute_social_cost with total += x * (a * x): the constant term is dropped
compute_social_cost_slope_only(edge_flows, Gr, den) ==
  LET c == [e \in DOMAIN edge_flows |->
              edge_flows[e] * DictGet(Gr.attrs[e], "a", 0) * edge_flows[e]]
  IN SumOver(c, DOMAIN edge_flows)

compute_social_cost(edge_flows, Gr, den) ==
  LET c == [e \in DOMAIN edge_flows |-> EdgeCost(Gr, e, edge_flows[e], den)]
  IN SumOver(c, DOMAIN edge_flows)

\* total_cost with the per-vehicle cost a * x / 2 + b integrated instead of
\* multiplied (the Beckmann potential, doubled to stay whole)
total_cost_potential(Gr, ps, flow_split, den) ==
  LET edge_flows == ZipLoop([e \in GEdges(Gr) |-> 0], flow_split, ps, 1)
      c == [e \in GEdges(Gr) |->
              edge_flows[e] * (DictGet(Gr.attrs[e], "a", 0) * edge_flows[e]
                               + 2 * DictGet(Gr.attrs[e], "b", 0) * den)]
  IN SumOver(c, GEdges(Gr))

\* the objective handed to minimize
total_cost(Gr, ps, flow_split, den) ==
  LET edge_flows == ZipLoop([e \in GEdges(Gr) |-> 0], flow_split, ps, 1)
      c == [e \in GEdges(Gr) |-> EdgeCost(Gr, e, edge_flows[e], den)]
  IN SumOver(c, GEdges(Gr))

\* a * x + b for a flow of X units, times den
EdgeTravelTime(Gr, e, X, den) ==
  DictGet(Gr.attrs[e], "a", 0) * X + DictGet(Gr.attrs[e], "b", 0) * den

\* ------------------------------------------------------------ minimize
\* n / (len(paths) + 1)
TrueDiv_extra_share(nn, k, den) == (nn * den) \div (k + 1)

\* n / len(paths), in units of 1/den
TrueDiv(nn, k, den) == (nn * den) \div k

\* bounds = [(0, n)] * len(paths)
Bounds(k, nn, den) == [i \in 1..k |-> <<0, nn * den>>]

\* cons: sum(x) - n, which minimize drives to 0
Cons(x, nn, den) == SumSeq([i \in 1..Len(x) |-> x[i]]) - nn * den

\* the points minimize may move over: inside the bounds, on the constraint
Feasible(k, bnds, nn, den) ==
  { x \in [1..k -> 0..(nn * den)] :
      /\ \A i \in 1..k : bnds[i][1] <= x[i] /\ x[i] <= bnds[i][2]
      /\ Cons(x, nn, den) = 0 }

\* scipy.optimize.minimize(total_cost, x0, bounds=bounds, constraints=cons):
\* the results it may report.  Either it reports success, with a minimiser of
\* the objective over the feasible points, or it reports failure (iteration
\* budget, line search), with the point it stopped at.
minimize(Gr, ps, x0, bnds, nn, den) ==
  LET F == Feasible(Len(ps), bnds, nn, den)
      cost == [x \in F |-> total_cost(Gr, ps, x, den)]
      best == {x \in F : \A y \in F : cost[x] <= cost[y]}
  IN {[success |-> TRUE, x |-> x] : x \in best} \cup {[success |-> FALSE, x |-> x0]}

\* ------------------------------------------------------------ the solvers
\* the ways a call of assign_flow_social_optimum may go: what minimize reported
\* and what the call returns (or the exception it raises, before minimize is
\* reached, when there is no path to divide by)
assign_flow_social_optimum(Gr, ps, nn) ==
  IF Len(ps) = 0
  THEN {[minimize |-> "not called", returns |-> Raise("ZeroDivisionError")]}
  ELSE LET den == Den(ps)
           x0 == [i \in 1..Len(ps) |-> TrueDiv(nn, Len(ps), den)]
           bnds == Bounds(Len(ps), nn, den)
       IN { [minimize |-> IF res.success THEN "success" ELSE "failure",
             returns |-> IF res.success THEN Value("ndarray", res.x) ELSE NoneValue] :
              res \in minimize(Gr, ps, x0, bnds, nn, den) }

\* assign_flows_nash_equilibrium with np.ones(len(paths)) * n: no division
assign_flows_nash_equilibrium_undivided(Gr, ps, nn) ==
  IF Len(ps) = 0 THEN Raise("ZeroDivisionError")
  ELSE Value("ndarray", [i \in 1..Len(ps) |-> nn * Den(ps)])

assign_flows_nash_equilibrium(Gr, ps, nn) ==
  IF Len(ps) = 0 THEN Raise("ZeroDivisionError")
  ELSE Value("ndarray", [i \in 1..Len(ps) |-> TrueDiv(nn, Len(ps), Den(ps))])

\* ------------------------------------------------------------ main
Printed(text) == [kind |-> "print", text |-> text]
Plotted(title, cost) == [kind |-> "plot", title |-> title, social_cost |-> cost]

Exit(status, err) ==
  /\ pc' = "exited"
  /\ exit_status' = status
  /\ error' = err

\* load_graph: read_gml and the directedness test; any failure prints and exits 1
Load ==
  /\ pc = "start"
  /\ IF gml.readable /\ gml.directed
     THEN /\ G' = gml.graph
          /\ pc' = "get_paths"
          /\ out' = Append(out, Printed("graph nodes:"))
          /\ UNCHANGED <<exit_status, error>>
     ELSE /\ out' = Append(out, Printed("Error loading graph"))
          /\ Exit(1, "none")
          /\ UNCHANGED G
  /\ UNCHANGED <<gml, args, paths, nash_flows, opt_flows, nash_edge_flows,
                 opt_edge_flows, optimizer, ret>>

\* paths = get_all_paths(G, start, end); if not paths: print, return
GetPaths ==
  /\ pc = "get_paths"
  /\ IF args.start \notin G.nodes
     THEN /\ Exit(1, "NodeNotFound")
          /\ UNCHANGED <<paths, out>>
     ELSE /\ paths' = get_all_paths(G, args.start, args.end)
          /\ IF paths' = <<>>
             THEN /\ out' = Append(out, Printed("No path found"))
                  /\ Exit(0, "none")
             ELSE /\ pc' = "nash"
                  /\ UNCHANGED <<out, exit_status, error>>
  /\ UNCHANGED <<gml, args, G, nash_flows, opt_flows, nash_edge_flows,
                 opt_edge_flows, optimizer, ret>>

Nash ==
  /\ pc = "nash"
  /\ nash_flows' = assign_flows_nash_equilibrium(G, paths, n)
  /\ pc' = "opt"
  /\ UNCHANGED <<gml, args, G, paths, opt_flows, nash_edge_flows, opt_edge_flows,
                 out, exit_status, error, optimizer, ret>>

Opt ==
  /\ pc = "opt"
  /\ \E r \in assign_flow_social_optimum(G, paths, n) :
       /\ opt_flows' = r.returns
       /\ optimizer' = r.minimize
  /\ pc' = "edge_nash"
  /\ UNCHANGED <<gml, args, G, paths, nash_flows, nash_edge_flows, opt_edge_flows,
                 out, exit_status, error, ret>>

EdgeNash ==
  /\ pc = "edge_nash"
  /\ nash_edge_flows' = flows_to_edge_flows(G, paths, nash_flows)
  /\ pc' = "edge_opt"
  /\ UNCHANGED <<gml, args, G, paths, nash_flows, opt_flows, opt_edge_flows,
                 out, exit_status, error, optimizer, ret>>

\* flows_to_edge_flows(G, paths, opt_flows): zip(None, paths) raises TypeError,
\* which nothing catches
EdgeOpt ==
  /\ pc = "edge_opt"
  /\ LET r == flows_to_edge_flows(G, paths, opt_flows)
     IN IF r.tag = "dict"
        THEN /\ opt_edge_flows' = r
             /\ pc' = "print"
             /\ UNCHANGED <<exit_status, error>>
        ELSE /\ Exit(1, r.tag)
             /\ UNCHANGED opt_edge_flows
  /\ UNCHANGED <<gml, args, G, paths, nash_flows, opt_flows, nash_edge_flows,
                 out, optimizer, ret>>

PrintFlows ==
  /\ pc = "print"
  /\ out' = out \o <<Printed("Nash Equilibrium"), Printed("Social Optimum")>>
  /\ pc' = "plot"
  /\ UNCHANGED <<gml, args, G, paths, nash_flows, opt_flows, nash_edge_flows,
                 opt_edge_flows, exit_status, error, optimizer, ret>>

\* if args.plot: the two plot_graph calls; then main returns
Plot ==
  /\ pc = "plot"
  /\ IF args.plot
     THEN out' = out \o
            << Plotted("Nash Equilibrium",
                       compute_social_cost(nash_edge_flows.v, G, Den(paths))),
               Plotted("Social Optimum",
                       compute_social_cost(opt_edge_flows.v, G, Den(paths))) >>
     ELSE UNCHANGED out
  /\ Exit(0, "none")
  /\ UNCHANGED <<gml, args, G, paths, nash_flows, opt_flows, nash_edge_flows,
                 opt_edge_flows, optimizer, ret>>

\* ------------------------------------------------------------ direct calls
ApiFrame == <<pc, gml, args, G, paths, nash_flows, opt_flows, nash_edge_flows,
              opt_edge_flows, out, exit_status, error>>

CallNash ==
  /\ pc = "api" /\ ret.fn = "none"
  /\ ret' = [fn |-> "assign_flows_nash_equilibrium", flows |-> <<>>,
             result |-> assign_flows_nash_equilibrium(G, paths, n)]
  /\ UNCHANGED <<ApiFrame, optimizer>>

CallOpt ==
  /\ pc = "api" /\ ret.fn = "none"
  /\ \E r \in assign_flow_social_optimum(G, paths, n) :
       /\ ret' = [fn |-> "assign_flow_social_optimum", flows |-> <<>>,
                  result |-> r.returns]
       /\ optimizer' = r.minimize
  /\ UNCHANGED ApiFrame

\* the flow vectors a caller may pass: any length up to one more than the paths
CallerFlows ==
  UNION { [1..k -> 0..MaxVehicles] : k \in 0..(Len(paths) + 1) }

CallEdgeFlows ==
  /\ pc = "api" /\ ret.fn = "none"
  /\ \E flows \in CallerFlows :
       ret' = [fn |-> "flows_to_edge_flows", flows |-> flows,
               result |-> flows_to_edge_flows(G, paths, Value("ndarray", flows))]
  /\ UNCHANGED <<ApiFrame, optimizer>>

\* ------------------------------------------------------------ specification
Files ==
  { [readable |-> FALSE, directed |-> TRUE, graph |-> NoGraph],
    [readable |-> TRUE, directed |-> FALSE,
     graph |-> Graph({0, 1}, << <<0, 1>> >>, ( <<0, 1>> :> <<>> ))] }
  \cup { [readable |-> TRUE, directed |-> TRUE, graph |-> g] : g \in Networks }

\* start and end: two nodes of the network, or a start that is no node of it
Endpoints == { <<0, 1>>, <<1, 0>>, <<9, 1>> }

Fresh ==
  /\ nash_flows = Unset /\ opt_flows = Unset
  /\ nash_edge_flows = Unset /\ opt_edge_flows = Unset
  /\ out = <<>> /\ exit_status = -1 /\ error = "none"
  /\ optimizer = "unset" /\ ret = NoCall

MainInit ==
  /\ pc = "start"
  /\ \/ /\ gml \in Files
        /\ \E v \in 1..MaxVehicles, se \in Endpoints, p \in BOOLEAN :
             args = [vehicles |-> v, start |-> se[1], end |-> se[2], plot |-> p]
     \/ \E sc \in Scenarios, p \in BOOLEAN :
          /\ gml = [readable |-> TRUE, directed |-> TRUE, graph |-> sc.graph]
          /\ args = [vehicles |-> sc.vehicles, start |-> 0, end |-> 1, plot |-> p]
  /\ G = NoGraph /\ paths = <<>>
  /\ Fresh

ApiInit ==
  /\ pc = "api"
  /\ G \in FreeNetworks \cup {BraessGraph}
  /\ gml = [readable |-> TRUE, directed |-> TRUE, graph |-> G]
  /\ \E v \in 1..MaxVehicles :
       args = [vehicles |-> v, start |-> 0, end |-> 1, plot |-> FALSE]
  /\ paths = get_all_paths(G, 0, 1)
  /\ Fresh

Init == MainInit \/ ApiInit

Next ==
  \/ Load
  \/ GetPaths
  \/ Nash
  \/ Opt
  \/ EdgeNash
  \/ EdgeOpt
  \/ PrintFlows
  \/ Plot
  \/ CallNash
  \/ CallOpt
  \/ CallEdgeFlows

Spec == Init /\ [][Next]_vars

\* ------------------------------------------------------------ claims
IsVec(f) == f.tag = "ndarray"
IsDict(f) == f.tag = "dict"

\* the flows sum to n and none is negative
SumsToN(x) ==
  /\ SumSeq([i \in 1..Len(x) |-> x[i]]) = n * Den(paths)
  /\ \A i \in 1..Len(x) : x[i] >= 0

\* what a direct call of one of the two solvers returned
SolverCalled == ret.fn \in {"assign_flows_nash_equilibrium", "assign_flow_social_optimum"}

\* C1: with at least one path and n > 0, the flow vector each solver returns
\* sums to n and has no negative entry (the optimum solver's, whenever it
\* returns a vector)
C1_FlowsSumToN ==
  Len(paths) > 0 =>
    /\ nash_flows # Unset => IsVec(nash_flows) /\ SumsToN(nash_flows.v)
    /\ IsVec(opt_flows) => SumsToN(opt_flows.v)
    /\ ret.fn = "assign_flows_nash_equilibrium" =>
         IsVec(ret.result) /\ SumsToN(ret.result.v)
    /\ ret.fn = "assign_flow_social_optimum" /\ IsVec(ret.result) =>
         SumsToN(ret.result.v)

C1_Witness ==
  /\ pc = "exited" /\ exit_status = 0 /\ Len(paths) = 2
  /\ IsVec(nash_flows) /\ IsVec(opt_flows)
  /\ \E i \in 1..2 : opt_flows.v[i] # nash_flows.v[i]

\* sum of a * x + b over the path's edges, under the loads ef (times den)
PathCost(Gr, path, ef, den) ==
  SumSeq([i \in 1..(Len(path) - 1) |->
            EdgeTravelTime(Gr, <<path[i], path[i + 1]>>, ef[<<path[i], path[i + 1]>>], den)])

\* C2: in the equilibrium assignment every path that carries flow costs the
\* minimum over all enumerated paths, and every path with no flow costs at
\* least that minimum
C2_WardropEquilibrium ==
  IsDict(nash_edge_flows) =>
    LET cost == [i \in 1..Len(paths) |->
                   PathCost(G, paths[i], nash_edge_flows.v, Den(paths))]
        least == CHOOSE c \in Range(cost) : \A d \in Range(cost) : c <= d
    IN \A i \in 1..Len(paths) :
         /\ nash_flows.v[i] > 0 => cost[i] = least
         /\ nash_flows.v[i] = 0 => cost[i] >= least

\* C3: the social optimum's total system cost is at most the equilibrium
\* assignment's
C3_OptimumNoWorse ==
  IsDict(nash_edge_flows) /\ IsDict(opt_edge_flows) =>
    compute_social_cost(opt_edge_flows.v, G, Den(paths))
      <= compute_social_cost(nash_edge_flows.v, G, Den(paths))

C3_Witness ==
  /\ IsDict(nash_edge_flows) /\ IsDict(opt_edge_flows)
  /\ compute_social_cost(opt_edge_flows.v, G, Den(paths))
       < compute_social_cost(nash_edge_flows.v, G, Den(paths))

\* C4: called with an empty path list, each solver fails with
\* NoFeasiblePathsError
C4_NoFeasiblePathsError ==
  SolverCalled /\ paths = <<>> => ret.result.tag = "NoFeasiblePathsError"

\* C5: when minimize reports non-convergence, the optimum solver signals
\* OptimizationDidNotConvergeError, and the run does not end in a TypeError
\* on a null flow vector
C5_ExplicitNonConvergence ==
  optimizer = "failure" =>
    /\ (IF pc = "api" THEN ret.result ELSE opt_flows).tag = "OptimizationDidNotConvergeError"
    /\ error # "TypeError"

\* C6: with exactly one simple path, each solver returns the one-element
\* vector carrying all n vehicles, whatever the coefficients (the optimum
\* solver, whenever it returns a vector)
C6_SinglePathCarriesAll ==
  Len(paths) = 1 =>
    /\ nash_flows # Unset => IsVec(nash_flows) /\ nash_flows.v = <<n * Den(paths)>>
    /\ IsVec(opt_flows) => opt_flows.v = <<n * Den(paths)>>
    /\ ret.fn = "assign_flows_nash_equilibrium" =>
         IsVec(ret.result) /\ ret.result.v = <<n * Den(paths)>>
    /\ ret.fn = "assign_flow_social_optimum" /\ IsVec(ret.result) =>
         ret.result.v = <<n * Den(paths)>>

C6_Witness ==
  /\ pc = "exited" /\ Len(paths) = 1 /\ Len(paths[1]) = 3
  /\ IsVec(nash_flows) /\ IsVec(opt_flows)
  /\ \E e \in GEdges(G) : DOMAIN G.attrs[e] = {"a", "b"}

\* C7: flows_to_edge_flows fails with DimensionMismatchError whenever the
\* flow vector and the path list differ in length
C7_DimensionMismatch ==
  ret.fn = "flows_to_edge_flows" /\ Len(ret.flows) # Len(paths) =>
    ret.result.tag = "DimensionMismatchError"

InPigouScenario ==
  G = PigouGraph /\ n = 20 /\ args.start = 0 /\ args.end = 1

\* C8: in the two-route scenario with n = 20 the equilibrium assignment loads
\* each route with 10, both routes cost 10 and the total is 200; the social
\* optimum loads the a = 1 route with 5 and the other with 15, total 175
C8_PigouScenario ==
  InPigouScenario =>
    LET den == Den(paths) IN
    /\ IsDict(nash_edge_flows) =>
         /\ nash_edge_flows.v[<<0, 2>>] = 10 * den
         /\ nash_edge_flows.v[<<0, 1>>] = 10 * den
         /\ \A i \in 1..Len(paths) :
              PathCost(G, paths[i], nash_edge_flows.v, den) = 10 * den
         /\ compute_social_cost(nash_edge_flows.v, G, den) = 200 * den * den
    /\ IsDict(opt_edge_flows) =>
         /\ opt_edge_flows.v[<<0, 2>>] = 5 * den
         /\ opt_edge_flows.v[<<0, 1>>] = 15 * den
         /\ compute_social_cost(opt_edge_flows.v, G, den) = 175 * den * den

C8_Witness ==
  /\ InPigouScenario /\ pc = "exited" /\ args.plot
  /\ IsDict(nash_edge_flows) /\ IsDict(opt_edge_flows)
  /\ Len(out) = 5

LoadFails == ~(gml.readable /\ gml.directed)

\* C9: main ends with a non-zero status when the graph fails to load or no
\* path exists, and with status 0, both results printed, in every other case
C9_ExitStatus ==
  pc = "exited" =>
    IF LoadFails \/ paths = <<>>
    THEN exit_status # 0
    ELSE /\ exit_status = 0
         /\ \E i, j \in 1..Len(out) :
              /\ out[i] = Printed("Nash Equilibrium")
              /\ out[j] = Printed("Social Optimum")

Traverses(path, e) ==
  \E i \in 1..(Len(path) - 1) : path[i] = e[1] /\ path[i + 1] = e[2]

\* the load of every edge: the flows of the paths that traverse it, summed
EdgeLoads(Gr, ps, flows) ==
  [e \in GEdges(Gr) |->
     SumSeq([i \in 1..Len(ps) |-> IF Traverses(ps[i], e) THEN flows[i] ELSE 0])]

\* C10: for a flow vector as long as the path list, flows_to_edge_flows
\* returns, for every edge of the network, the sum of the flows of the paths
\* traversing it, and leaves the network, the paths and the flows unchanged
C10_EdgeLoads ==
  [][ /\ pc = "edge_nash" /\ pc' = "edge_opt" =>
           /\ nash_edge_flows' = Value("dict", EdgeLoads(G, paths, nash_flows.v))
           /\ UNCHANGED <<G, paths, nash_flows>>
      /\ pc = "edge_opt" /\ pc' = "print" =>
           /\ opt_edge_flows' = Value("dict", EdgeLoads(G, paths, opt_flows.v))
           /\ UNCHANGED <<G, paths, opt_flows>>
      /\ ret.fn = "none" /\ ret'.fn = "flows_to_edge_flows"
           /\ Len(ret'.flows) = Len(paths) =>
           /\ ret'.result = Value("dict", EdgeLoads(G, paths, ret'.flows))
           /\ UNCHANGED <<G, paths>>
    ]_vars

C10_Witness ==
  /\ G = BraessGraph /\ pc = "exited" /\ exit_status = 0
  /\ IsDict(nash_edge_flows) /\ IsDict(opt_edge_flows)
  /\ Cardinality({i \in 1..Len(paths) : Traverses(paths[i], <<0, 2>>)}) = 2
  /\ nash_edge_flows.v[<<0, 2>>] = nash_flows.v[1] + nash_flows.v[2]
  /\ nash_flows.v[1] > 0

====
